---- MODULE Spec2Model ----
(***************************************************************************)
(* A model of the "rush generate" and "rush unlink" command actions and    *)
(* of the command-line parser that runs them and turns their errors into   *)
(* an exit code.                                                           *)
(*                                                                         *)
(* The state is the part of the repository's filesystem the actions read   *)
(* and write (the two copies of the shrinkwrap file, the install flag      *)
(* file, the temp manifest, the approved-packages file, the rush-link flag *)
(* file, each project's node_modules folder), the order of the files'     *)
(* modification times, and, per invocation of the tool, the position in    *)
(* the action and its local variables.                                     *)
(***************************************************************************)
EXTENDS Integers, Sequences, FiniteSets, TLC

\* ---------------------------------------------------------------- bounds
NumProjects == 2     \* projects in rush.json
NumContents == 2     \* distinct contents a shrinkwrap file can have
NumProcs    == 2     \* invocations of the tool that may overlap in time
MaxEntries  == 3     \* entries of an approved-packages file as it is found
NumTasks    == 3     \* build tasks (one per project) given to the scheduler
MaxWidth    == 2     \* widest worker pool of the scheduler

Procs    == 1..NumProcs
Projects == 1..NumProjects
Contents == 1..NumContents
Absent   == 0
Tasks    == 1..NumTasks

VARIABLES
  committedShrinkwrap,  \* common/npm-shrinkwrap.json: Absent or its content
  committedTime,        \* its modification time
  tempShrinkwrap,       \* common/temp/npm-shrinkwrap.json: Absent or its content
  markerExists,         \* the install flag file of common/temp/node_modules
  markerTime,           \* its modification time
  manifestTime,         \* modification time of common/temp/package.json
  approved,             \* the approved-packages file: a list of entries
  linkFlag,             \* common/temp/rush-link.json exists
  nodeModules,          \* per project: its local node_modules folder exists
  cmd,                  \* per invocation: "none", "generate" or "unlink"
  lazy, noLink,         \* per invocation: --lazy, --no-link
  debug,                \* per invocation: --debug, recorded where it is read
  envPath,              \* per invocation: process.env.PATH, a list of folders
  pc,                   \* per invocation: the statement it is at
  exitCode,             \* per invocation: -1 while running, else the exit code
  err,                  \* per invocation: the error thrown, or "none"
  reported,             \* per invocation: what it has printed
  didAnything, idx,     \* locals of UnlinkAction.onExecute
  linkPending,          \* per invocation: the link promise is not settled
  linkForce,            \* per invocation: the force argument its link was called with
  telemetry,            \* per invocation: "pending", "flushed" or "flushFailed"
  trace,                \* per invocation: the steps of the action it has run
  snap,                 \* per invocation: the filesystem when it started
  lastOp, prevOp,       \* what the last finished invocation was; per invocation, lastOp at its start
  taskState,            \* build scheduler: per task, its state
  dependsOn,            \* build scheduler: the internal dependency edges <<task, dependency>>
  parallelism,          \* build scheduler: width of the worker pool
  failFast, rebuild     \* build scheduler: its two policies

fsVars   == <<committedShrinkwrap, committedTime, tempShrinkwrap, markerExists,
              markerTime, manifestTime, approved, linkFlag, nodeModules>>
procVars == <<cmd, lazy, noLink, debug, envPath, pc, exitCode, err, reported, didAnything,
              idx, linkPending, linkForce, telemetry, trace, snap, lastOp, prevOp>>
buildVars == <<taskState, dependsOn, parallelism, failFast, rebuild>>
vars     == <<fsVars, procVars, buildVars>>

\* ------------------------------------------------------- project registry
\* rush.json: every project declares one external package of its own name
\* and has a review category.
Uses(proj) == {proj}
Category(proj) == IF proj % 2 = 1 THEN "production" ELSE "prototype"
PackageNames == 1..(NumProjects + 1)

\* ------------------------------------------------ approved-packages file
RECURSIVE SortedNames(_)
SortedNames(S) ==
  IF S = {} THEN <<>>
  ELSE LET m == CHOOSE x \in S : \A y \in S : x <= y
       IN <<m>> \o SortedNames(S \ {m})

ObservedUsage == UNION { { <<n, Category(proj)>> : n \in Uses(proj) } : proj \in Projects }

\* Mutant of RewriteConfigFiles: the packages in use are appended without
\* looking for the entries the file already has.
RewriteConfigFilesAppending(list) ==
  LET seen  == { u[1] : u \in ObservedUsage }
      order == SortedNames(seen)
  IN list \o [ i \in DOMAIN order |->
                [name |-> order[i],
                 allowedCategories |-> { u[2] : u \in { v \in ObservedUsage : v[1] = order[i] } }] ]

\* ApprovedPackagesChecker.rewriteConfigFiles: every observed package gets an
\* entry, every entry the categories of the projects that use it; entries are
\* never removed; the list is written sorted by name.
RewriteConfigFiles(list) ==
  LET listed  == { list[i].name : i \in DOMAIN list }
      seen    == { u[1] : u \in ObservedUsage }
      cats(n) == UNION { list[i].allowedCategories : i \in { j \in DOMAIN list : list[j].name = n } }
                 \cup { u[2] : u \in { v \in ObservedUsage : v[1] = n } }
      order   == SortedNames(listed \cup seen)
  IN [ i \in DOMAIN order |-> [name |-> order[i], allowedCategories |-> cats(order[i])] ]

\* Any approved-packages file the schema admits, written by hand or by the
\* tool: a list of {name, allowedCategories} in any order, names possibly
\* repeated.
Categories == { Category(proj) : proj \in Projects }
PackageInfo == [name : PackageNames, allowedCategories : SUBSET Categories]
ApprovedFiles == UNION { [1..n -> PackageInfo] : n \in 0..MaxEntries }

\* The approved-packages file the repository is found with: an entry for
\* package 1 that lacks the category of the project using it, no entry yet
\* for the other packages in use, and a hand-written entry for a package no
\* project uses.
InitialApproved ==
  { << [name |-> 1, allowedCategories |-> {"prototype"}],
       [name |-> NumProjects + 1, allowedCategories |-> {"production"}] >> }

\* ------------------------------------------------------------- filesystem
\* Modification times come from one clock that never goes back. Only their
\* order is ever compared, so they are kept up to order: a file that is
\* written gets a time later than every time on disk (Later), and the times
\* are then renumbered 1, 2, ... in the same order (0: the file is absent).
Later ==
  1 + (CHOOSE m \in {markerTime, committedTime, manifestTime} :
         \A x \in {markerTime, committedTime, manifestTime} : x <= m)

Rank(x, all) == IF x = 0 THEN 0 ELSE Cardinality({ y \in all : 0 < y /\ y < x }) + 1

\* The three times become those of marker, committed and manifest.
SetTimes(marker, committed, manifest) ==
  LET all == {marker, committed, manifest}
  IN /\ markerTime'    = Rank(marker, all)
     /\ committedTime' = Rank(committed, all)
     /\ manifestTime'  = Rank(manifest, all)

Filesystem ==
  [ committed     |-> committedShrinkwrap,
    committedTime |-> committedTime,
    temp          |-> tempShrinkwrap,
    marker        |-> markerExists,
    markerTime    |-> markerTime,
    approved      |-> approved,
    linkFlag      |-> linkFlag,
    nodeModules   |-> nodeModules ]

\* The build scheduler has not been given anything to do.
BuildIdle ==
  /\ taskState = [t \in Tasks |-> "pending"]
  /\ dependsOn = {}
  /\ parallelism = 1
  /\ failFast = FALSE
  /\ rebuild = FALSE

\* PATH as the shell hands it to the tool, and the folder of the binaries of
\* the common install
InheritedPath == <<"/usr/bin">>
BinFolder == "common/temp/node_modules/.bin"

\* _ensureEnvironment, lines 110-117: process.env.PATH is assigned the
\* common install's .bin folder followed by its old value
EnsureEnvironment(path) == <<BinFolder>> \o path

\* No invocation of the tool has been started.
InitProcs ==
  /\ cmd = [p \in Procs |-> "none"]
  /\ lazy = [p \in Procs |-> FALSE]
  /\ noLink = [p \in Procs |-> FALSE]
  /\ debug = [p \in Procs |-> FALSE]
  /\ envPath = [p \in Procs |-> InheritedPath]
  /\ pc = [p \in Procs |-> "idle"]
  /\ exitCode = [p \in Procs |-> -1]
  /\ err = [p \in Procs |-> "none"]
  /\ reported = [p \in Procs |-> {}]
  /\ didAnything = [p \in Procs |-> FALSE]
  /\ idx = [p \in Procs |-> 1]
  /\ linkPending = [p \in Procs |-> FALSE]
  /\ linkForce = [p \in Procs |-> FALSE]
  /\ telemetry = [p \in Procs |-> "pending"]
  /\ trace = [p \in Procs |-> <<>>]
  /\ snap = [p \in Procs |-> Filesystem]
  /\ lastOp = "other"
  /\ prevOp = [p \in Procs |-> "other"]

\* The repository as the tool may find it. The shrinkwrap files and the
\* install flag file are there or not, all of one age. The projects are
\* not linked, or linked, or were linked and have since had their
\* node_modules folders removed by hand.
Init ==
  /\ committedShrinkwrap \in {Absent} \cup Contents
  /\ committedTime = IF committedShrinkwrap = Absent THEN 0 ELSE 1
  /\ tempShrinkwrap \in {Absent, 1}
  /\ markerExists \in BOOLEAN
  /\ markerTime = IF markerExists THEN 1 ELSE 0
  /\ manifestTime = 1
  /\ approved \in InitialApproved
  /\ \/ linkFlag = FALSE /\ nodeModules = [proj \in Projects |-> FALSE]
     \/ linkFlag = TRUE /\ nodeModules = [proj \in Projects |-> TRUE]
     \/ linkFlag = TRUE /\ nodeModules = [proj \in Projects |-> FALSE]
  /\ InitProcs
  /\ BuildIdle

\* ------------------------------------------------------ control helpers
unlinkLocals == <<didAnything, idx>>
linkVars     == <<linkPending, linkForce>>
exitVars     == <<exitCode, telemetry>>
Flushed(p, outcome) == telemetry' = [telemetry EXCEPT ![p] = outcome]
\* what no step of a running action changes: its parameters, the record of
\* how it started, and the build scheduler's tasks
startVars    == <<cmd, lazy, noLink, envPath, snap, prevOp, buildVars>>
runVars      == <<startVars, debug, lastOp>>

Goto(p, label) == pc' = [pc EXCEPT ![p] = label]
Did(p, step)   == trace' = [trace EXCEPT ![p] = Append(@, step)]

\* The statement at p completes and control moves to `label`.
Step(p, step, label) ==
  /\ Goto(p, label)
  /\ Did(p, step)
  /\ UNCHANGED <<err, exitVars, reported, linkVars, unlinkLocals, runVars>>

\* The process ends with `code`.
Exit(p, code) ==
  /\ Goto(p, "exited")
  /\ exitCode' = [exitCode EXCEPT ![p] = code]
  /\ linkPending' = [linkPending EXCEPT ![p] = FALSE]
  /\ lastOp' = IF cmd[p] = "unlink" /\ code = 0 THEN "unlinked" ELSE "other"
  /\ UNCHANGED <<startVars, trace, unlinkLocals, linkForce>>

\* Mutant of exitWithError: no finally: when the flush throws,
\* process.exit(1) is not reached and the process ends by itself, with
\* code 0.
ExitWithErrorNoFinally(p) ==
  \E flushThrows \in BOOLEAN :
    /\ Flushed(p, IF flushThrows THEN "flushFailed" ELSE "flushed")
    /\ Exit(p, IF flushThrows THEN 0 ELSE 1)

\* exitWithError, lines 52-58: try { telemetry.flush() } finally
\* { process.exit(1) }: the process ends with code 1 whether or not the
\* flush throws.
ExitWithError(p) ==
  \E flushThrows \in BOOLEAN :
    /\ Flushed(p, IF flushThrows THEN "flushFailed" ELSE "flushed")
    /\ Exit(p, 1)

\* _exitAndReportError, lines 119-129: the error's stack (with --debug) or
\* its message is printed, then exitWithError is called.
ExitAndReportError(p, dbg) ==
  /\ reported' = [reported EXCEPT ![p] = @ \cup {IF dbg THEN "stack" ELSE "ERROR"}]
  /\ ExitWithError(p)

\* RushCommandLineParser.onExecute, lines 69-80: an error thrown under
\* super.onExecute() or by telemetry.flush() is caught and handed to
\* _exitAndReportError (lines 119-129), which prints it and calls
\* exitWithError; except with --debug, where it stays uncaught and node
\* ends the process with code 1 after printing the stack.
ParserCatch(p) ==
  \E dbg \in BOOLEAN :
    /\ debug' = [debug EXCEPT ![p] = dbg]
    /\ IF dbg
         THEN /\ reported' = [reported EXCEPT ![p] = @ \cup {"stack"}]
              /\ Exit(p, 1)
              /\ UNCHANGED telemetry
         ELSE ExitAndReportError(p, FALSE)

\* The statement at p throws e: control leaves the action's onExecute and
\* reaches the parser.
Throw(p, e) ==
  /\ err' = [err EXCEPT ![p] = e]
  /\ ParserCatch(p)

\* The tool is started: the parser is constructed, and its _initialize
\* (lines 83-91) calls _ensureEnvironment; then CommandLineParser parses the
\* arguments and calls the chosen action's onExecute. (--debug is read only
\* where an error is handled, and its value is drawn and recorded there.)
Start(p, c, lz, nl) ==
  /\ pc[p] = "idle"
  /\ cmd' = [cmd EXCEPT ![p] = c]
  /\ lazy' = [lazy EXCEPT ![p] = lz]
  /\ noLink' = [noLink EXCEPT ![p] = nl]
  /\ debug' = [debug EXCEPT ![p] = FALSE]
  /\ envPath' = [envPath EXCEPT ![p] = EnsureEnvironment(envPath[p])]
  /\ pc' = [pc EXCEPT ![p] = IF c = "generate" THEN "g_rewrite" ELSE "u_deleteFlag"]
  /\ exitCode' = [exitCode EXCEPT ![p] = -1]
  /\ err' = [err EXCEPT ![p] = "none"]
  /\ reported' = [reported EXCEPT ![p] = {}]
  /\ didAnything' = [didAnything EXCEPT ![p] = FALSE]
  /\ idx' = [idx EXCEPT ![p] = 1]
  /\ linkPending' = [linkPending EXCEPT ![p] = FALSE]
  /\ linkForce' = [linkForce EXCEPT ![p] = FALSE]
  /\ telemetry' = [telemetry EXCEPT ![p] = "pending"]
  /\ trace' = [trace EXCEPT ![p] = <<>>]
  /\ snap' = [snap EXCEPT ![p] = Filesystem]
  /\ prevOp' = [prevOp EXCEPT ![p] = lastOp]
  /\ UNCHANGED <<lastOp, fsVars, buildVars>>

\* ------------------------------------------------------ GenerateAction
timeVars == <<committedTime, markerTime, manifestTime>>

\* line 60: ApprovedPackagesChecker.rewriteConfigFiles(this._rushConfiguration)
GenRewrite(p) ==
  /\ pc[p] = "g_rewrite"
  /\ approved' = RewriteConfigFiles(approved)
  /\ Step(p, "rewrite", "g_npmTool")
  /\ UNCHANGED <<committedShrinkwrap, tempShrinkwrap, markerExists, linkFlag,
                 nodeModules, timeVars>>

\* lines 64-66: new InstallManager; installManager.ensureLocalNpmTool(false)
GenEnsureNpmTool(p) ==
  /\ pc[p] = "g_npmTool"
  /\ \/ Step(p, "npmTool", "g_temp")
     \/ Throw(p, "npmTool")
  /\ UNCHANGED fsVars

\* line 68: installManager.createTempModules(): the temp manifest is written,
\* or a structural error is thrown and nothing is written.
GenCreateTempModules(p) ==
  /\ pc[p] = "g_temp"
  /\ \/ /\ SetTimes(markerTime, committedTime, Later)
        /\ Step(p, "temp", "g_delete")
     \/ /\ Throw(p, "structural")
        /\ UNCHANGED timeVars
  /\ UNCHANGED <<committedShrinkwrap, tempShrinkwrap, markerExists, approved,
                 linkFlag, nodeModules>>

\* Mutant of GenDeleteShrinkwrap: only the committed copy is deleted.
GenDeleteCommittedOnly(p) ==
  /\ pc[p] = "g_delete"
  /\ IF committedShrinkwrap # Absent
       THEN committedShrinkwrap' = Absent /\ SetTimes(markerTime, 0, manifestTime)
       ELSE UNCHANGED <<committedShrinkwrap, timeVars>>
  /\ Step(p, "delete", "g_install")
  /\ UNCHANGED <<tempShrinkwrap, markerExists, approved, linkFlag, nodeModules>>

\* Mutant of GenDeleteShrinkwrap: the committed copy is kept with --lazy.
GenDeleteShrinkwrapUnlessLazy(p) ==
  /\ pc[p] = "g_delete"
  /\ IF committedShrinkwrap # Absent /\ ~lazy[p]
       THEN committedShrinkwrap' = Absent /\ SetTimes(markerTime, 0, manifestTime)
       ELSE UNCHANGED <<committedShrinkwrap, timeVars>>
  /\ tempShrinkwrap' = Absent
  /\ Step(p, "delete", "g_install")
  /\ UNCHANGED <<markerExists, approved, linkFlag, nodeModules>>

\* lines 70-77: 'Delete both copies of the shrinkwrap file': the committed
\* one and the temp one, each if it exists
GenDeleteShrinkwrap(p) ==
  /\ pc[p] = "g_delete"
  /\ IF committedShrinkwrap # Absent
       THEN committedShrinkwrap' = Absent /\ SetTimes(markerTime, 0, manifestTime)
       ELSE UNCHANGED <<committedShrinkwrap, timeVars>>
  /\ tempShrinkwrap' = Absent
  /\ Step(p, "delete", "g_install")
  /\ UNCHANGED <<markerExists, approved, linkFlag, nodeModules>>

\* InstallManager.installCommonModules: the rush-link flag file is deleted
\* and the install flag file removed before npm runs; when npm succeeds the
\* install flag file is normally written again (made == TRUE).
InstallCommonModules(ok, made) ==
  /\ linkFlag' = FALSE
  /\ markerExists' = (ok /\ made)
  /\ SetTimes(IF ok /\ made THEN Later ELSE 0, committedTime, manifestTime)

\* Mutant of GenInstall: when the install fails the committed shrinkwrap
\* file is put back as it was.
GenInstallRestoresOnFailure(p) ==
  /\ pc[p] = "g_install"
  /\ \/ /\ \E made \in BOOLEAN : InstallCommonModules(TRUE, made)
        /\ Step(p, IF lazy[p] THEN "installNormal" ELSE "installForceClean",
                   IF lazy[p] THEN "g_finish" ELSE "g_shrinkwrap")
        /\ UNCHANGED committedShrinkwrap
     \/ /\ linkFlag' = FALSE
        /\ markerExists' = FALSE
        /\ committedShrinkwrap' = snap[p].committed
        /\ SetTimes(0, IF snap[p].committed = Absent THEN 0 ELSE Later, manifestTime)
        /\ Throw(p, "install")
  /\ UNCHANGED <<tempShrinkwrap, approved, nodeModules>>

\* Mutant of GenInstall: the incremental install too goes on to "npm
\* shrinkwrap".
GenInstallLazyShrinkwraps(p) ==
  /\ pc[p] = "g_install"
  /\ \/ /\ \E made \in BOOLEAN : InstallCommonModules(TRUE, made)
        /\ Step(p, IF lazy[p] THEN "installNormal" ELSE "installForceClean",
                   "g_shrinkwrap")
     \/ /\ InstallCommonModules(FALSE, FALSE)
        /\ Throw(p, "install")
  /\ UNCHANGED <<committedShrinkwrap, tempShrinkwrap, approved, nodeModules>>

\* Mutant of GenInstall: after the clean install the flag file is rewritten
\* at once, before "npm shrinkwrap" and the sync.
GenInstallThenMarker(p) ==
  /\ pc[p] = "g_install"
  /\ \/ /\ \E made \in BOOLEAN : InstallCommonModules(TRUE, made)
        /\ Step(p, IF lazy[p] THEN "installNormal" ELSE "installForceClean",
                   IF lazy[p] THEN "g_finish" ELSE "g_marker")
     \/ /\ InstallCommonModules(FALSE, FALSE)
        /\ Throw(p, "install")
  /\ UNCHANGED <<committedShrinkwrap, tempShrinkwrap, approved, nodeModules>>

\* lines 79-90: installCommonModules(InstallType.Normal) with --lazy, else
\* installCommonModules(InstallType.ForceClean), which then goes on to
\* "npm shrinkwrap"
GenInstall(p) ==
  /\ pc[p] = "g_install"
  /\ \/ /\ \E made \in BOOLEAN : InstallCommonModules(TRUE, made)
        /\ Step(p, IF lazy[p] THEN "installNormal" ELSE "installForceClean",
                   IF lazy[p] THEN "g_finish" ELSE "g_shrinkwrap")
     \/ /\ InstallCommonModules(FALSE, FALSE)
        /\ Throw(p, "install")
  /\ UNCHANGED <<committedShrinkwrap, tempShrinkwrap, approved, nodeModules>>

\* Mutant of GenShrinkwrap: a failure of "npm shrinkwrap" is not thrown and
\* onExecute goes on.
GenShrinkwrapIgnoresFailure(p) ==
  /\ pc[p] = "g_shrinkwrap"
  /\ \/ /\ tempShrinkwrap' \in {Absent} \cup Contents
        /\ Step(p, "shrinkwrap", "g_sync")
     \/ /\ Goto(p, "g_sync")
        /\ err' = [err EXCEPT ![p] = "shrinkwrap"]
        /\ UNCHANGED <<tempShrinkwrap, trace, exitVars, reported, linkVars,
                       unlinkLocals, runVars>>
  /\ UNCHANGED <<committedShrinkwrap, markerExists, approved, linkFlag,
                 nodeModules, timeVars>>

\* lines 92-97: Utilities.executeCommand(npm, ['shrinkwrap'], commonTempFolder):
\* npm writes common/temp/npm-shrinkwrap.json (none when there is nothing to
\* pin), or exits non-zero and executeCommand throws.
GenShrinkwrap(p) ==
  /\ pc[p] = "g_shrinkwrap"
  /\ \/ /\ tempShrinkwrap' \in {Absent} \cup Contents
        /\ Step(p, "shrinkwrap", "g_sync")
     \/ /\ Throw(p, "shrinkwrap")
        /\ UNCHANGED tempShrinkwrap
  /\ UNCHANGED <<committedShrinkwrap, markerExists, approved, linkFlag,
                 nodeModules, timeVars>>

\* Mutant of GenSync: the temp file is not copied; the committed file is
\* only deleted when there is no temp file.
GenSyncNoCopy(p) ==
  /\ pc[p] = "g_sync"
  /\ IF tempShrinkwrap # Absent
       THEN UNCHANGED <<committedShrinkwrap, timeVars>>
       ELSE /\ committedShrinkwrap' = Absent
            /\ SetTimes(markerTime, 0, manifestTime)
  /\ Step(p, "sync", "g_marker")
  /\ UNCHANGED <<tempShrinkwrap, markerExists, approved, linkFlag, nodeModules>>

\* lines 99-101: installManager.syncFile(tempShrinkwrapFilename,
\* committedShrinkwrapFilename): copy the source over the destination, or
\* delete the destination when there is no source.
GenSync(p) ==
  /\ pc[p] = "g_sync"
  /\ IF tempShrinkwrap # Absent
       THEN /\ committedShrinkwrap' = tempShrinkwrap
            /\ SetTimes(markerTime, Later, manifestTime)
       ELSE /\ committedShrinkwrap' = Absent
            /\ SetTimes(markerTime, 0, manifestTime)
  /\ Step(p, "sync", "g_marker")
  /\ UNCHANGED <<tempShrinkwrap, markerExists, approved, linkFlag, nodeModules>>

\* Mutant of GenMarker: a missing flag file is not noticed.
GenMarkerNoCheck(p) ==
  /\ pc[p] = "g_marker"
  /\ IF markerExists
       THEN SetTimes(Later, committedTime, manifestTime)
       ELSE UNCHANGED timeVars
  /\ Step(p, "marker", "g_finish")
  /\ UNCHANGED <<committedShrinkwrap, tempShrinkwrap, markerExists, approved,
                 linkFlag, nodeModules>>

\* Mutant of GenMarker: the flag file is checked but not rewritten.
GenMarkerNoTouch(p) ==
  /\ pc[p] = "g_marker"
  /\ IF markerExists
       THEN Step(p, "marker", "g_finish")
       ELSE Throw(p, "markerMissing")
  /\ UNCHANGED fsVars

\* lines 108-113: rewrite the install flag file if it exists, else throw
\* 'The install flag file is missing'
GenMarker(p) ==
  /\ pc[p] = "g_marker"
  /\ IF markerExists
       THEN /\ SetTimes(Later, committedTime, manifestTime)
            /\ Step(p, "marker", "g_finish")
       ELSE /\ Throw(p, "markerMissing")
            /\ UNCHANGED timeVars
  /\ UNCHANGED <<committedShrinkwrap, tempShrinkwrap, markerExists, approved,
                 linkFlag, nodeModules>>

\* Mutant of GenFinish: --no-link is not looked at.
GenFinishIgnoresNoLink(p) ==
  /\ pc[p] = "g_finish"
  /\ Goto(p, "flush")
  /\ linkPending' = [linkPending EXCEPT ![p] = TRUE]
  /\ linkForce' = [linkForce EXCEPT ![p] = TRUE]
  /\ trace' = [trace EXCEPT ![p] = @ \o <<"success", "link">>]
  /\ reported' = [reported EXCEPT ![p] = @ \cup {"success"}]
  /\ UNCHANGED <<err, exitVars, unlinkLocals, runVars, fsVars>>

\* Mutant of GenFinish: the link is started without force.
GenFinishNoForce(p) ==
  /\ pc[p] = "g_finish"
  /\ Goto(p, "flush")
  /\ IF ~noLink[p]
       THEN /\ linkPending' = [linkPending EXCEPT ![p] = TRUE]
            /\ linkForce' = [linkForce EXCEPT ![p] = FALSE]
            /\ trace' = [trace EXCEPT ![p] = @ \o <<"success", "link">>]
            /\ reported' = [reported EXCEPT ![p] = @ \cup {"success"}]
       ELSE /\ reported' = [reported EXCEPT ![p] = @ \cup {"success", "next: rush link"}]
            /\ Did(p, "success")
            /\ UNCHANGED linkVars
  /\ UNCHANGED <<err, exitVars, unlinkLocals, runVars, fsVars>>

\* lines 116-126: 'Rush generate finished successfully.'; then, unless
\* --no-link, linkManager.createSymlinksForProjects(true) is started and its
\* promise handed to catchSyncErrors; onExecute returns.
GenFinish(p) ==
  /\ pc[p] = "g_finish"
  /\ Goto(p, "flush")
  /\ IF ~noLink[p]
       THEN /\ linkPending' = [linkPending EXCEPT ![p] = TRUE]
            /\ linkForce' = [linkForce EXCEPT ![p] = TRUE]
            /\ trace' = [trace EXCEPT ![p] = @ \o <<"success", "link">>]
            /\ reported' = [reported EXCEPT ![p] = @ \cup {"success"}]
       ELSE /\ reported' = [reported EXCEPT ![p] = @ \cup {"success", "next: rush link"}]
            /\ Did(p, "success")
            /\ UNCHANGED linkVars
  /\ UNCHANGED <<err, exitVars, unlinkLocals, runVars, fsVars>>

\* -------------------------------------------------------- UnlinkAction
\* Mutant of UnlinkDeleteFlag: the flag file is deleted only when there is
\* no node_modules folder left to purge.
UnlinkDeleteFlagWhenUnlinked(p) ==
  /\ pc[p] = "u_deleteFlag"
  /\ linkFlag' = IF \E proj \in Projects : nodeModules[proj] THEN linkFlag ELSE FALSE
  /\ Step(p, "deleteFlag", "u_loop")
  /\ UNCHANGED <<committedShrinkwrap, tempShrinkwrap, markerExists, approved,
                 nodeModules, timeVars>>

\* Mutant of UnlinkDeleteFlag: the flag file is left in place.
UnlinkKeepsFlag(p) ==
  /\ pc[p] = "u_deleteFlag"
  /\ Step(p, "deleteFlag", "u_loop")
  /\ UNCHANGED fsVars

\* lines 38-40: Utilities.deleteFile(rushLinkJsonFilename): delete the flag
\* file if it exists
UnlinkDeleteFlag(p) ==
  /\ pc[p] = "u_deleteFlag"
  /\ linkFlag' = FALSE
  /\ Step(p, "deleteFlag", "u_loop")
  /\ UNCHANGED <<committedShrinkwrap, tempShrinkwrap, markerExists, approved,
                 nodeModules, timeVars>>

\* Mutant of UnlinkProject: didAnything is set for every project, purged or not.
UnlinkProjectAlwaysDid(p) ==
  /\ pc[p] = "u_loop"
  /\ idx[p] <= NumProjects
  /\ nodeModules' = [nodeModules EXCEPT ![idx[p]] = FALSE]
  /\ didAnything' = [didAnything EXCEPT ![p] = TRUE]
  /\ idx' = [idx EXCEPT ![p] = @ + 1]
  /\ UNCHANGED <<pc, err, trace, exitVars, reported, linkVars, runVars>>
  /\ UNCHANGED <<committedShrinkwrap, tempShrinkwrap, markerExists, approved,
                 linkFlag, timeVars>>

\* Mutant of UnlinkProject: the loop ends after the first folder it purges.
UnlinkProjectStopsAfterFirst(p) ==
  /\ pc[p] = "u_loop"
  /\ idx[p] <= NumProjects
  /\ nodeModules' = [nodeModules EXCEPT ![idx[p]] = FALSE]
  /\ didAnything' = [didAnything EXCEPT ![p] = didAnything[p] \/ nodeModules[idx[p]]]
  /\ idx' = [idx EXCEPT ![p] = IF nodeModules[idx[p]] THEN NumProjects + 1 ELSE @ + 1]
  /\ UNCHANGED <<pc, err, trace, exitVars, reported, linkVars, runVars>>
  /\ UNCHANGED <<committedShrinkwrap, tempShrinkwrap, markerExists, approved,
                 linkFlag, timeVars>>

\* lines 43-50: one iteration of the loop over the projects: purge the
\* project's node_modules folder if it exists (the purge may throw)
UnlinkProject(p) ==
  /\ pc[p] = "u_loop"
  /\ idx[p] <= NumProjects
  /\ IF nodeModules[idx[p]]
       THEN \/ /\ nodeModules' = [nodeModules EXCEPT ![idx[p]] = FALSE]
               /\ didAnything' = [didAnything EXCEPT ![p] = TRUE]
               /\ idx' = [idx EXCEPT ![p] = @ + 1]
               /\ Did(p, "purge")
               /\ UNCHANGED <<pc, err>>
               /\ UNCHANGED <<exitVars, reported, linkVars, runVars>>
            \/ /\ Throw(p, "purge")
               /\ UNCHANGED nodeModules
       ELSE /\ idx' = [idx EXCEPT ![p] = @ + 1]
            /\ UNCHANGED <<nodeModules, didAnything, pc, err, trace>>
            /\ UNCHANGED <<exitVars, reported, linkVars, runVars>>
  /\ UNCHANGED <<committedShrinkwrap, tempShrinkwrap, markerExists, approved,
                 linkFlag, timeVars>>

\* lines 51-55: 'Nothing to do.' or 'Done.'; onExecute returns
UnlinkReport(p) ==
  /\ pc[p] = "u_loop"
  /\ idx[p] > NumProjects
  /\ Goto(p, "flush")
  /\ reported' = [reported EXCEPT
                    ![p] = @ \cup {IF didAnything[p] THEN "Done." ELSE "Nothing to do."}]
  /\ UNCHANGED <<err, exitVars, linkVars, trace, unlinkLocals, runVars, fsVars>>

\* ----------------------------------------------- RushCommandLineParser
\* onExecute, lines 71-72 and 75-76: super.onExecute() has returned and
\* telemetry.flush() runs; with no promise pending the process then ends
\* with code 0.
ParserFlush(p) ==
  /\ pc[p] = "flush"
  /\ \/ /\ linkPending[p]
        /\ Goto(p, "await")
        /\ Flushed(p, "flushed")
        /\ UNCHANGED <<err, exitCode, reported, linkVars, trace, unlinkLocals, runVars>>
     \/ /\ ~linkPending[p]
        /\ Flushed(p, "flushed")
        /\ Exit(p, 0)
        /\ UNCHANGED <<err, reported, debug>>
     \/ Throw(p, "flush")
  /\ UNCHANGED fsVars

\* LinkManager.createSymlinksForProjects(force): without force, a
\* repository whose rush-link.json is there counts as linked and nothing is
\* done. Otherwise every project gets its node_modules folder and
\* rush-link.json is written, and the promise resolves; or linking fails
\* after some of the folders and it rejects.
CreateSymlinksForProjects(force, ok, done) ==
  IF ok
    THEN IF ~force /\ linkFlag
           THEN UNCHANGED <<nodeModules, linkFlag>>
           ELSE /\ nodeModules' = [proj \in Projects |-> TRUE]
                /\ linkFlag' = TRUE
    ELSE /\ nodeModules' = [proj \in Projects |-> nodeModules[proj] \/ proj \in done]
         /\ UNCHANGED linkFlag

\* Mutant of LinkSettle: no handler is attached to the promise, and a
\* rejection goes unnoticed.
LinkSettleUnhandled(p) ==
  /\ pc[p] = "await"
  /\ \/ /\ CreateSymlinksForProjects(linkForce[p], TRUE, Projects)
        /\ Exit(p, 0)
        /\ UNCHANGED <<err, reported, debug, telemetry>>
     \/ /\ \E done \in SUBSET Projects :
              done # Projects /\ CreateSymlinksForProjects(linkForce[p], FALSE, done)
        /\ err' = [err EXCEPT ![p] = "link"]
        /\ Exit(p, 0)
        /\ UNCHANGED <<reported, debug, telemetry>>
  /\ UNCHANGED <<committedShrinkwrap, tempShrinkwrap, markerExists, approved, timeVars>>

\* catchSyncErrors, lines 46-50: the link promise settles; a rejection goes
\* to _exitAndReportError.
LinkSettle(p) ==
  /\ pc[p] = "await"
  /\ \/ /\ CreateSymlinksForProjects(linkForce[p], TRUE, Projects)
        /\ Exit(p, 0)
        /\ UNCHANGED <<err, reported, debug, telemetry>>
     \/ /\ \E done \in SUBSET Projects :
              done # Projects /\ CreateSymlinksForProjects(linkForce[p], FALSE, done)
        /\ err' = [err EXCEPT ![p] = "link"]
        /\ \E dbg \in BOOLEAN :
              /\ debug' = [debug EXCEPT ![p] = dbg]
              /\ ExitAndReportError(p, dbg)
  /\ UNCHANGED <<committedShrinkwrap, tempShrinkwrap, markerExists, approved, timeVars>>

\* ------------------------------------------------------- specifications
Run(p) ==
  \/ GenRewrite(p) \/ GenEnsureNpmTool(p) \/ GenCreateTempModules(p)
  \/ GenDeleteShrinkwrap(p) \/ GenInstall(p)
  \/ GenShrinkwrap(p) \/ GenSync(p) \/ GenMarker(p) \/ GenFinish(p)
  \/ UnlinkDeleteFlag(p) \/ UnlinkProject(p) \/ UnlinkReport(p)
  \/ ParserFlush(p) \/ LinkSettle(p)

\* The process has ended and is gone: nothing of it remains but what it
\* left on disk (and lastOp, the record of what was run last).
Reap(p) ==
  /\ pc[p] = "exited"
  /\ cmd' = [cmd EXCEPT ![p] = "none"]
  /\ lazy' = [lazy EXCEPT ![p] = FALSE]
  /\ noLink' = [noLink EXCEPT ![p] = FALSE]
  /\ debug' = [debug EXCEPT ![p] = FALSE]
  /\ envPath' = [envPath EXCEPT ![p] = InheritedPath]
  /\ pc' = [pc EXCEPT ![p] = "idle"]
  /\ exitCode' = [exitCode EXCEPT ![p] = -1]
  /\ err' = [err EXCEPT ![p] = "none"]
  /\ reported' = [reported EXCEPT ![p] = {}]
  /\ didAnything' = [didAnything EXCEPT ![p] = FALSE]
  /\ idx' = [idx EXCEPT ![p] = 1]
  /\ linkPending' = [linkPending EXCEPT ![p] = FALSE]
  /\ linkForce' = [linkForce EXCEPT ![p] = FALSE]
  /\ telemetry' = [telemetry EXCEPT ![p] = "pending"]
  /\ trace' = [trace EXCEPT ![p] = <<>>]
  /\ snap' = [snap EXCEPT ![p] = Filesystem]
  /\ prevOp' = [prevOp EXCEPT ![p] = "other"]
  /\ UNCHANGED <<lastOp, fsVars, buildVars>>

Quiet(p) == pc[p] = "idle"

\* "rush generate [--lazy] [--no-link]" or "rush unlink"
StartCommand(p) ==
  \/ \E lz \in BOOLEAN, nl \in BOOLEAN : Start(p, "generate", lz, nl)
  \/ Start(p, "unlink", FALSE, FALSE)

\* One invocation at a time: the tool is run again only when the previous
\* run has ended.
Next ==
  \/ (\A q \in Procs : Quiet(q)) /\ StartCommand(1)
  \/ \E p \in Procs : Run(p)
  \/ \E p \in Procs : Reap(p)

Spec == Init /\ [][Next]_vars

\* Two invocations started by different shells on one fully installed and
\* linked repository, each run once, their steps interleaved by the
\* operating system.
InitConc ==
  /\ committedShrinkwrap = 1
  /\ committedTime = 2
  /\ tempShrinkwrap = 1
  /\ markerExists = TRUE
  /\ markerTime = 3
  /\ manifestTime = 1
  /\ approved = RewriteConfigFiles(<<>>)
  /\ linkFlag = TRUE
  /\ nodeModules = [proj \in Projects |-> TRUE]
  /\ InitProcs
  /\ BuildIdle

NextConc ==
  \/ \E p \in Procs : StartCommand(p)
  \/ \E p \in Procs : Run(p)

SpecConc == InitConc /\ [][NextConc]_vars

\* "rush generate" run again and again on a repository whose projects do
\* not change, starting from any approved-packages file; each run is
\* followed up to the point where the file has been rewritten and the run
\* either fails at its next step or goes on.
InitRewrite ==
  /\ approved \in ApprovedFiles
  /\ committedShrinkwrap = Absent /\ committedTime = 0
  /\ tempShrinkwrap = Absent
  /\ markerExists = FALSE /\ markerTime = 0
  /\ manifestTime = 1
  /\ linkFlag = FALSE
  /\ nodeModules = [proj \in Projects |-> FALSE]
  /\ InitProcs
  /\ BuildIdle

NextRewrite ==
  \/ (\A q \in Procs : Quiet(q)) /\ Start(1, "generate", FALSE, FALSE)
  \/ GenRewrite(1)
  \/ GenEnsureNpmTool(1)
  \/ Reap(1)

SpecRewrite == InitRewrite /\ [][NextRewrite]_vars

\* ------------------------------------------------------ build scheduler
\* scheduleBuild(parallelism, failFast, rebuild): one build task per
\* project; a task depends on the tasks of the projects its project depends
\* on inside the repository.
DependenciesOf(t) == { d \in Tasks : <<t, d>> \in dependsOn }

RECURSIVE Downstream(_, _)
\* the tasks that reach a task of `from` through dependency edges, `from`
\* included; n bounds the length of the paths
Downstream(from, n) ==
  IF n = 0 THEN from
  ELSE Downstream(from \cup { t \in Tasks : DependenciesOf(t) \cap from # {} }, n - 1)

Running  == { t \in Tasks : taskState[t] = "running" }

\* The dependency graph is acyclic: with the projects numbered in a
\* topological order, every edge goes from a later task to an earlier one.
AcyclicGraphs == SUBSET { e \in Tasks \X Tasks : e[1] > e[2] }

InitBuild ==
  /\ committedShrinkwrap = 1
  /\ committedTime = 2
  /\ tempShrinkwrap = 1
  /\ markerExists = TRUE
  /\ markerTime = 3
  /\ manifestTime = 1
  /\ approved = RewriteConfigFiles(<<>>)
  /\ linkFlag = TRUE
  /\ nodeModules = [proj \in Projects |-> TRUE]
  /\ InitProcs
  /\ taskState = [t \in Tasks |-> "pending"]
  /\ dependsOn \in AcyclicGraphs
  /\ parallelism \in 1..MaxWidth
  /\ failFast \in BOOLEAN
  /\ rebuild \in BOOLEAN

buildFrame == <<dependsOn, parallelism, failFast, rebuild, fsVars, procVars>>

\* pending -> ready: every task it depends on has succeeded
TaskReady(t) ==
  /\ taskState[t] = "pending"
  /\ \A d \in DependenciesOf(t) : taskState[d] = "succeeded"
  /\ taskState' = [taskState EXCEPT ![t] = "ready"]
  /\ UNCHANGED buildFrame

\* Mutant of TaskStart: a worker takes any task that has not run yet.
TaskStartUnordered(t) ==
  /\ taskState[t] \in {"pending", "ready"}
  /\ Cardinality(Running) < parallelism
  /\ taskState' = [taskState EXCEPT ![t] = "running"]
  /\ UNCHANGED buildFrame

\* ready -> running: a free worker of the pool takes a ready task
TaskStart(t) ==
  /\ taskState[t] = "ready"
  /\ Cardinality(Running) < parallelism
  /\ taskState' = [taskState EXCEPT ![t] = "running"]
  /\ UNCHANGED buildFrame

\* "build" mode: a ready task whose output is up to date is not run and
\* counts as succeeded
TaskCached(t) ==
  /\ ~rebuild
  /\ taskState[t] = "ready"
  /\ taskState' = [taskState EXCEPT ![t] = "succeeded"]
  /\ UNCHANGED buildFrame

\* running -> succeeded
TaskSucceeds(t) ==
  /\ taskState[t] = "running"
  /\ taskState' = [taskState EXCEPT ![t] = "succeeded"]
  /\ UNCHANGED buildFrame

\* running -> failed (its command fails or times out): every task downstream
\* of it is marked skipped; with fail-fast so is every task not yet started;
\* running tasks are left to finish
TaskFails(t) ==
  /\ taskState[t] = "running"
  /\ taskState' =
       [u \in Tasks |->
          IF u = t THEN "failed"
          ELSE IF u \in Downstream({t}, NumTasks) THEN "skipped"
          ELSE IF failFast /\ taskState[u] \in {"pending", "ready"} THEN "skipped"
          ELSE taskState[u]]
  /\ UNCHANGED buildFrame

NextBuild ==
  \E t \in Tasks :
    \/ TaskReady(t) \/ TaskStart(t) \/ TaskCached(t)
    \/ TaskSucceeds(t) \/ TaskFails(t)

SpecBuild == InitBuild /\ [][NextBuild]_vars

\* ================================================================ claims
Has(tr, step) == \E i \in DOMAIN tr : tr[i] = step
Times(tr, step) == Cardinality({ i \in DOMAIN tr : tr[i] = step })
\* every occurrence of step b in tr comes after an occurrence of step a
Before(tr, a, b) == \A j \in DOMAIN tr : tr[j] = b => \E i \in 1..(j - 1) : tr[i] = a

FullGenerate(p) == cmd[p] = "generate" /\ ~lazy[p]
LazyGenerate(p) == cmd[p] = "generate" /\ lazy[p]
Ended(p)        == pc[p] = "exited"
Succeeded(p)    == pc[p] = "exited" /\ exitCode[p] = 0

\* InstallAction's check, "the install is current and there is nothing to
\* do": the install flag file exists and is no older than the temp manifest
\* and the committed shrinkwrap file.
InstallIsCurrent ==
  /\ markerExists
  /\ markerTime >= manifestTime
  /\ committedShrinkwrap # Absent => markerTime >= committedTime

\* C1: in a full generate the steps run in the order clean install, "npm
\* shrinkwrap", sync of the temp shrinkwrap file to the committed one, and
\* only then the rewrite of the install flag file: generate never rewrites
\* the flag file (line 109) before the sync (line 100) has been done.
TheoremC1 ==
  \A p \in Procs :
    FullGenerate(p) =>
      /\ Before(trace[p], "installForceClean", "shrinkwrap")
      /\ Before(trace[p], "shrinkwrap", "sync")
      /\ Before(trace[p], "sync", "marker")
      /\ Times(trace[p], "marker") <= 1
      /\ ~Has(trace[p], "installNormal")

WitnessC1 ==
  \E p \in Procs : FullGenerate(p) /\ Has(trace[p], "marker") /\ Succeeded(p)

\* C2 as claimed: after a lazy generate the committed shrinkwrap file exists
\* exactly when it did before, with the same content.
OriginalC2 ==
  \A p \in Procs :
    LazyGenerate(p) /\ Succeeded(p) => committedShrinkwrap = snap[p].committed

\* C2, amended: a lazy generate never writes the committed shrinkwrap file
\* but deletes it: during the run the file is as it was before or absent,
\* once the deletion step has run it is absent, and so it is after the run.
TheoremC2 ==
  \A p \in Procs :
    LazyGenerate(p) =>
      /\ committedShrinkwrap \in {snap[p].committed, Absent}
      /\ Has(trace[p], "delete") => committedShrinkwrap = Absent
      /\ Succeeded(p) => committedShrinkwrap = Absent
      /\ ~Has(trace[p], "sync")

WitnessC2 ==
  \E p \in Procs :
    LazyGenerate(p) /\ Succeeded(p) /\ snap[p].committed # Absent

\* C3: after a successful full generate the install flag file is no older
\* than the committed shrinkwrap file (when there is one), which is no older
\* than the temp manifest, so the install check finds the install current.
TheoremC3 ==
  \A p \in Procs :
    FullGenerate(p) /\ "success" \in reported[p] =>
      /\ markerExists
      /\ markerTime >= manifestTime
      /\ committedShrinkwrap # Absent =>
           markerTime >= committedTime /\ committedTime >= manifestTime
      /\ InstallIsCurrent

WitnessC3 ==
  \E p \in Procs :
    /\ FullGenerate(p) /\ Succeeded(p) /\ "success" \in reported[p]
    /\ committedShrinkwrap # Absent
    /\ markerTime > committedTime /\ committedTime > manifestTime /\ manifestTime > 0

\* C4 as claimed: when createTempModules throws a structural error, nothing
\* on disk differs from what generate found when it started.
OriginalC4 ==
  \A p \in Procs :
    cmd[p] = "generate" /\ err[p] = "structural" => Filesystem = snap[p]

\* C5: when the install or "npm shrinkwrap" fails, no later step of generate
\* runs (no sync, no rewrite of the flag file, no success report, no link)
\* and the process ends with a non-zero exit code.
TheoremC5 ==
  \A p \in Procs :
    cmd[p] = "generate" /\ err[p] \in {"install", "shrinkwrap"} =>
      /\ Ended(p) /\ exitCode[p] # 0
      /\ ~Has(trace[p], "sync") /\ ~Has(trace[p], "marker")
      /\ ~Has(trace[p], "success") /\ ~Has(trace[p], "link")
      /\ "success" \notin reported[p]
      /\ ~linkPending[p]
      /\ committedShrinkwrap = Absent
      /\ nodeModules = snap[p].nodeModules
      /\ err[p] = "install" => ~Has(trace[p], "shrinkwrap")

WitnessC5 ==
  \E p \in Procs :
    /\ FullGenerate(p) /\ err[p] = "shrinkwrap" /\ Ended(p)
    /\ Has(trace[p], "installForceClean") /\ snap[p].committed # Absent

\* C6: in a full generate, when the install flag file is absent once the
\* clean install and the sync are done, generate throws: it does not create
\* the file, report success or start linking; the flag file it rewrites is
\* one that exists.
TheoremC6 ==
  \A p \in Procs :
    FullGenerate(p) =>
      /\ Has(trace[p], "sync") /\ ~markerExists /\ pc[p] # "g_marker" =>
           err[p] = "markerMissing"
      /\ err[p] = "markerMissing" =>
           /\ ~markerExists /\ Has(trace[p], "sync")
           /\ Ended(p) /\ exitCode[p] = 1
           /\ ~Has(trace[p], "marker") /\ ~Has(trace[p], "link")
           /\ "success" \notin reported[p] /\ ~linkPending[p]
           /\ nodeModules = snap[p].nodeModules
      /\ Has(trace[p], "marker") => markerExists
      /\ "success" \in reported[p] => Has(trace[p], "marker")

WitnessC6 ==
  \E p \in Procs : FullGenerate(p) /\ err[p] = "markerMissing" /\ Ended(p)

\* C7 as claimed: the steps of two invocations that change the repository
\* never interleave. An invocation is in the middle of its changes from its
\* first deletion (generate: of the shrinkwrap files; unlink: of the flag
\* file) until it ends.
Changing(p) ==
  /\ cmd[p] \in {"generate", "unlink"}
  /\ ~Ended(p)
  /\ Has(trace[p], "delete") \/ Has(trace[p], "deleteFlag")

OriginalC7 ==
  \A p, q \in Procs : p # q => ~(Changing(p) /\ Changing(q))

\* C8: an unlink run right after an unlink that ended without error changes
\* nothing on disk and reports 'Nothing to do.'
TheoremC8 ==
  \A p \in Procs :
    cmd[p] = "unlink" /\ prevOp[p] = "unlinked" =>
      /\ Filesystem = snap[p]
      /\ err[p] # "purge"
      /\ ~didAnything[p]
      /\ pc[p] \in {"flush", "exited"} =>
           "Nothing to do." \in reported[p] /\ "Done." \notin reported[p]

WitnessC8 ==
  \E p \in Procs :
    /\ cmd[p] = "unlink" /\ prevOp[p] = "unlinked" /\ Succeeded(p)
    /\ "Nothing to do." \in reported[p]

NoneLinked(fs) == \A proj \in Projects : ~fs.nodeModules[proj]

\* C9 as claimed: unlink on a repository where no project has a
\* node_modules folder changes nothing on disk, whatever the flag file.
OriginalC9 ==
  \A p \in Procs :
    cmd[p] = "unlink" /\ NoneLinked(snap[p]) =>
      /\ Filesystem = snap[p]
      /\ pc[p] \in {"flush", "exited"} => "Nothing to do." \in reported[p]

\* C9, amended: unlink on such a repository reports 'Nothing to do.' and
\* changes nothing on disk except the rush-link flag file, which it deletes
\* if it exists; when there is no flag file either, nothing at all changes.
TheoremC9 ==
  \A p \in Procs :
    cmd[p] = "unlink" /\ NoneLinked(snap[p]) =>
      /\ [Filesystem EXCEPT !.linkFlag = snap[p].linkFlag] = snap[p]
      /\ Has(trace[p], "deleteFlag") => ~linkFlag
      /\ ~snap[p].linkFlag => Filesystem = snap[p]
      /\ err[p] # "purge"
      /\ pc[p] \in {"flush", "exited"} =>
           "Nothing to do." \in reported[p] /\ "Done." \notin reported[p]

WitnessC9 ==
  \E p \in Procs :
    /\ cmd[p] = "unlink" /\ NoneLinked(snap[p]) /\ snap[p].linkFlag
    /\ Succeeded(p) /\ "Nothing to do." \in reported[p] /\ ~linkFlag

\* C10: after an unlink that ended without error no project has a
\* node_modules folder and there is no rush-link flag file.
TheoremC10 ==
  \A p \in Procs :
    cmd[p] = "unlink" /\ Succeeded(p) =>
      /\ ~linkFlag
      /\ \A proj \in Projects : ~nodeModules[proj]

WitnessC10 ==
  \E p \in Procs :
    /\ cmd[p] = "unlink" /\ Succeeded(p) /\ "Done." \in reported[p]
    /\ snap[p].linkFlag /\ \A proj \in Projects : snap[p].nodeModules[proj]

Installed(tr) == Has(tr, "installNormal") \/ Has(tr, "installForceClean")

\* C11: in generate the stages run in the order governance rewrite,
\* manifest synthesis, install, link; the link is started only when every
\* earlier stage has completed without error, at most once in a run, and
\* with force = true, so that it is done even on a repository that counts
\* as linked.
TheoremC11 ==
  \A p \in Procs :
    cmd[p] = "generate" =>
      /\ Before(trace[p], "rewrite", "temp")
      /\ Before(trace[p], "temp", "installNormal")
      /\ Before(trace[p], "temp", "installForceClean")
      /\ Before(trace[p], "installNormal", "link") \/ Before(trace[p], "installForceClean", "link")
      /\ Times(trace[p], "rewrite") <= 1 /\ Times(trace[p], "temp") <= 1
      /\ Times(trace[p], "installNormal") + Times(trace[p], "installForceClean") <= 1
      /\ Times(trace[p], "link") <= 1
      /\ linkPending[p] => Has(trace[p], "link")
      /\ Has(trace[p], "link") =>
           /\ Has(trace[p], "rewrite") /\ Has(trace[p], "temp") /\ Installed(trace[p])
           /\ ~lazy[p] => Has(trace[p], "sync") /\ Has(trace[p], "marker")
           /\ err[p] \in {"none", "flush", "link"}
           /\ linkForce[p]
      /\ Has(trace[p], "link") /\ Succeeded(p) =>
           linkFlag /\ \A proj \in Projects : nodeModules[proj]

WitnessC11 ==
  \E p \in Procs :
    /\ cmd[p] = "generate" /\ Has(trace[p], "link") /\ Succeeded(p)
    /\ snap[p].linkFlag /\ linkFlag

NoLinkGenerate(p) == cmd[p] = "generate" /\ noLink[p]

TheoremC13 ==
  \A p \in Procs :
    LazyGenerate(p) =>
      /\ ~Has(trace[p], "shrinkwrap") /\ ~Has(trace[p], "sync")
      /\ ~Has(trace[p], "marker") /\ ~Has(trace[p], "installForceClean")
      /\ pc[p] \notin {"g_shrinkwrap", "g_sync", "g_marker"}
      /\ err[p] \notin {"shrinkwrap", "markerMissing"}
      /\ tempShrinkwrap \in {snap[p].temp, Absent}
      /\ Has(trace[p], "delete") => tempShrinkwrap = Absent

\* a lazy generate that ends well although the install left no flag file
WitnessC13 ==
  \E p \in Procs :
    /\ LazyGenerate(p) /\ Succeeded(p) /\ Has(trace[p], "installNormal")
    /\ ~markerExists /\ snap[p].temp # Absent

ErrorShown(p) == IF debug[p] THEN "stack" \in reported[p] ELSE "ERROR" \in reported[p]

\* C14: no failure is discarded: every error raised while an action runs,
\* thrown inside the action or delivered by the rejection of the link
\* promise, is printed (its message, or its stack with --debug) and ends the
\* process with exit code 1; a process that ends with exit code 0 has had
\* no error.
TheoremC14 ==
  \A p \in Procs :
    /\ err[p] # "none" => Ended(p) /\ exitCode[p] = 1 /\ ErrorShown(p)
    /\ Succeeded(p) =>
         err[p] = "none" /\ "ERROR" \notin reported[p] /\ "stack" \notin reported[p]
    /\ Ended(p) => exitCode[p] \in {0, 1}

\* the link promise was rejected after generate's onExecute had returned
WitnessC14 ==
  \E p \in Procs :
    /\ err[p] = "link" /\ Ended(p) /\ exitCode[p] = 1
    /\ "ERROR" \in reported[p] /\ "success" \in reported[p]

\* C15: the rewrite of the approved-packages file is idempotent: what a
\* rewrite has written, a second rewrite with the same projects writes again
\* unchanged, with the same entries, the same allowedCategories and the same
\* order.
TheoremC15 ==
  \A p \in Procs :
    cmd[p] = "generate" /\ Has(trace[p], "rewrite") =>
      /\ approved = RewriteConfigFiles(snap[p].approved)
      /\ RewriteConfigFiles(approved) = approved
      /\ snap[p].approved = RewriteConfigFiles(snap[p].approved) =>
           approved = snap[p].approved

\* A second run: invocation 2 is never started here, so snap[2] is the
\* repository as it was found; invocation 1 started from a file that an
\* earlier run had changed, and has rewritten it to the same file.
WitnessC15 ==
  /\ cmd[1] = "generate" /\ Has(trace[1], "rewrite")
  /\ snap[1].approved # snap[2].approved
  /\ approved = snap[1].approved
  /\ Len(snap[2].approved) = MaxEntries

\* C16: in the build scheduler, whatever the width of the worker pool and
\* the order in which tasks complete, a task is running (or has run) only
\* when every task it depends on has reached a terminal state and none of
\* them has failed; a task one of whose dependencies failed or was skipped
\* is skipped and never runs; no more tasks run at once than the pool is wide.
TheoremC16 ==
  /\ \A t \in Tasks :
       taskState[t] \in {"ready", "running", "succeeded", "failed"} =>
         \A d \in DependenciesOf(t) : taskState[d] = "succeeded"
  /\ \A t \in Tasks :
       (\E d \in DependenciesOf(t) : taskState[d] \in {"failed", "skipped"}) =>
         taskState[t] = "skipped"
  /\ Cardinality(Running) <= parallelism

\* the chain 3 -> 2 -> 1: task 1 succeeded, task 2 failed, task 3 is skipped
WitnessC16 ==
  /\ dependsOn = {<<3, 2>>, <<2, 1>>}
  /\ taskState[1] = "succeeded" /\ taskState[2] = "failed" /\ taskState[3] = "skipped"

\* C17 as claimed: the tool never changes the environment of its own
\* process: PATH is after the parser's initialisation what it was before.
OriginalC17 ==
  \A p \in Procs : envPath[p] = InheritedPath

\* C18: in both modes of generate, when installCommonModules is about to be
\* called neither copy of the shrinkwrap file exists: both have been
\* deleted, and they are deleted only once createTempModules has completed.
TheoremC18 ==
  \A p \in Procs :
    cmd[p] = "generate" =>
      /\ pc[p] = "g_install" =>
           /\ committedShrinkwrap = Absent /\ tempShrinkwrap = Absent
           /\ Has(trace[p], "delete")
      /\ Before(trace[p], "temp", "delete")
      /\ Before(trace[p], "delete", "installNormal")
      /\ Before(trace[p], "delete", "installForceClean")
      /\ err[p] = "install" => Has(trace[p], "delete")
      /\ ~Has(trace[p], "delete") =>
           committedShrinkwrap = snap[p].committed /\ tempShrinkwrap = snap[p].temp

WitnessC18 ==
  \E p \in Procs :
    /\ cmd[p] = "generate" /\ pc[p] = "g_install"
    /\ snap[p].committed # Absent /\ snap[p].temp # Absent

\* C19: after a full generate that ended well the committed shrinkwrap file
\* mirrors the temp one that "npm shrinkwrap" produced: it exists exactly
\* when the temp file exists, and then with the same content. (This holds
\* from the sync on.)
TheoremC19 ==
  \A p \in Procs :
    FullGenerate(p) =>
      /\ Has(trace[p], "sync") => committedShrinkwrap = tempShrinkwrap
      /\ Succeeded(p) => Has(trace[p], "sync") /\ committedShrinkwrap = tempShrinkwrap

\* the run replaced a committed file by one with another content
WitnessC19 ==
  \E p \in Procs :
    /\ FullGenerate(p) /\ Succeeded(p)
    /\ committedShrinkwrap # Absent /\ committedShrinkwrap = tempShrinkwrap
    /\ snap[p].committed # Absent /\ snap[p].committed # committedShrinkwrap

Purged(p) == { proj \in Projects : snap[p].nodeModules[proj] /\ ~nodeModules[proj] }

\* C20: unlink deletes the rush-link flag file before it purges any
\* node_modules folder: in every state in which unlink has removed a
\* project's node_modules folder, also when it was aborted partway through
\* the projects, there is no flag file.
TheoremC20 ==
  \A p \in Procs :
    cmd[p] = "unlink" =>
      /\ Before(trace[p], "deleteFlag", "purge")
      /\ Times(trace[p], "deleteFlag") <= 1
      /\ Purged(p) # {} => Has(trace[p], "purge") /\ ~linkFlag
      /\ Has(trace[p], "deleteFlag") => ~linkFlag
      /\ err[p] = "purge" => ~linkFlag

\* aborted at the second project, after the first was purged
WitnessC20 ==
  \E p \in Procs :
    /\ cmd[p] = "unlink" /\ Ended(p) /\ err[p] = "purge"
    /\ Purged(p) # {} /\ Purged(p) # Projects
    /\ snap[p].linkFlag

\* C21: generate is not atomic with respect to the committed shrinkwrap
\* file: a generate, in either mode, that aborts after the deletion of the
\* shrinkwrap files and before the sync ends with no committed shrinkwrap
\* file, even if there was one before the run; the old file is never put
\* back.
TheoremC21 ==
  \A p \in Procs :
    cmd[p] = "generate" /\ Has(trace[p], "delete") /\ ~Has(trace[p], "sync") =>
      /\ committedShrinkwrap = Absent /\ committedTime = 0
      /\ tempShrinkwrap # Absent => Has(trace[p], "shrinkwrap")
      /\ Ended(p) /\ ~lazy[p] => exitCode[p] = 1 /\ err[p] \in {"install", "shrinkwrap"}

WitnessC21 ==
  \E p \in Procs :
    /\ cmd[p] = "generate" /\ Ended(p) /\ exitCode[p] = 1
    /\ err[p] \in {"install", "shrinkwrap"}
    /\ snap[p].committed # Absent /\ committedShrinkwrap = Absent

\* exitWithError has been called: an error was caught by the parser (the
\* run is not with --debug), or the link promise was rejected.
CalledExitWithError(p) == err[p] # "none" /\ (~debug[p] \/ err[p] = "link")

\* C22: exitWithError always ends the process with exit code 1: it first
\* attempts the telemetry flush, and the exit with code 1 happens also when
\* the flush throws.
TheoremC22 ==
  \A p \in Procs :
    /\ CalledExitWithError(p) =>
         /\ Ended(p) /\ exitCode[p] = 1
         /\ telemetry[p] \in {"flushed", "flushFailed"}
    /\ telemetry[p] = "flushFailed" => CalledExitWithError(p) /\ Ended(p) /\ exitCode[p] = 1

WitnessC22 ==
  \E p \in Procs :
    /\ CalledExitWithError(p) /\ telemetry[p] = "flushFailed"
    /\ Ended(p) /\ exitCode[p] = 1 /\ "ERROR" \in reported[p]

====
